---- MODULE Spec2Model ----
(***************************************************************************)
(* Verification model of quanta_cogno: the JSON value type, the API        *)
(* request handler with its mandatory-search-parameter validation, and the *)
(* ${TYPE:KEY} template resolver of FlexibleJsonValue, and the workflow    *)
(* engine with its cache and its sequential and parallel steps.            *)
(*                                                                         *)
(* std::string is modelled by TLA+ strings (Len, \o and SubSeq act on the  *)
(* characters), positions are 1-based and npos is 0.                       *)
(***************************************************************************)
EXTENDS Integers, Sequences, FiniteSets, TLC

VARIABLES pc, endpoint, request, response, thrown,
          template_str, context, env, result, iters,
          workflow_name, run_state, step_index, tasks, outputs_, errors_,
          cache_, cache_mutex, client_pc, dispatches, completed, runs, clears,
          condition, guard_value,
          json_value, inserted, file, parsed,
          input_, variables_, warnings_, calls,
          tests, next_test, total_stats, stdout_, exit_status

vars == <<pc, endpoint, request, response, thrown,
          template_str, context, env, result, iters,
          workflow_name, run_state, step_index, tasks, outputs_, errors_,
          cache_, cache_mutex, client_pc, dispatches, completed, runs, clears,
          condition, guard_value,
          json_value, inserted, file, parsed,
          input_, variables_, warnings_, calls,
          tests, next_test, total_stats, stdout_, exit_status>>

apiVars == <<endpoint, request, response, thrown>>
tplVars == <<template_str, context, env, result, iters>>
runVars == <<workflow_name, run_state, step_index, tasks, outputs_, errors_>>
cacheVars == <<cache_, cache_mutex, client_pc, completed, clears>>
conditionVars == <<condition, guard_value>>
jsonVars == <<json_value, inserted, file, parsed>>
contextVars == <<input_, variables_, warnings_, calls>>
runnerVars == <<tests, next_test, total_stats, stdout_, exit_status>>
restVars == <<conditionVars, jsonVars, contextVars, runnerVars>>
engineVars == <<runVars, cacheVars, dispatches, runs, restVars>>

(***************************************************************************)
(* Bounds of the model.                                                    *)
(***************************************************************************)
MaxParams == 2
MaxSegs == 3
MaxIters == 5
MaxRuns == 2
MaxClears == 1
MaxInserts == 2
MaxCalls == 3
MaxTests == 3

(***************************************************************************)
(* std::string helpers.                                                    *)
(***************************************************************************)
npos == 0

CharAt(s, i) == SubSeq(s, i, i)

Min(S) == CHOOSE x \in S : \A y \in S : x <= y

\* std::string::find(sub, from): first position >= from where sub occurs.
Find(s, sub, from) ==
    LET P == { p \in from..(Len(s) - Len(sub) + 1) :
                   SubSeq(s, p, p + Len(sub) - 1) = sub }
    IN IF P = {} THEN npos ELSE Min(P)

Contains(s, sub) == Find(s, sub, 1) # npos

\* std::string::substr(pos) and substr(pos, len), 1-based.
SubstrFrom(s, pos) == SubSeq(s, pos, Len(s))
Substr(s, pos, len) == SubSeq(s, pos, pos + len - 1)

\* Mutant: the replaced range is one character short.
Replace_short(s, pos, len, repl) ==
    SubSeq(s, 1, pos - 1) \o repl \o SubSeq(s, pos + len - 1, Len(s))

\* std::string::replace(pos, len, repl).
Replace(s, pos, len, repl) ==
    SubSeq(s, 1, pos - 1) \o repl \o SubSeq(s, pos + len, Len(s))

\* Printable ASCII in code order, 0x20 .. 0x7E without the grave accent 0x60
\* (not writable in a TLA+ string); std::map<std::string,...> orders its keys
\* by std::less<std::string>, i.e. by these codes.
Ascii == " !\"#$%&'()*+,-./0123456789:;<=>?@ABCDEFGHIJKLMNOPQRSTUVWXYZ[\\]^_abcdefghijklmnopqrstuvwxyz{|}~"

CharCode(c) ==
    LET i == Find(Ascii, c, 1) IN IF i <= 64 THEN 31 + i ELSE 32 + i

RECURSIVE StrLess(_, _)
StrLess(a, b) ==
    IF Len(b) = 0 THEN FALSE
    ELSE IF Len(a) = 0 THEN TRUE
    ELSE IF CharAt(a, 1) # CharAt(b, 1)
         THEN CharCode(CharAt(a, 1)) < CharCode(CharAt(b, 1))
         ELSE StrLess(SubstrFrom(a, 2), SubstrFrom(b, 2))

\* Mutant: the keys in descending order.
RECURSIVE SortedKeys_descending(_)
SortedKeys_descending(K) ==
    IF K = {} THEN <<>>
    ELSE LET k == CHOOSE x \in K : \A y \in K \ {x} : StrLess(y, x)
         IN <<k>> \o SortedKeys_descending(K \ {k})

\* Mutant: the keys ordered by length first.
RECURSIVE SortedKeys_shortest_first(_)
SortedKeys_shortest_first(K) ==
    IF K = {} THEN <<>>
    ELSE LET k == CHOOSE x \in K : \A y \in K \ {x} :
                      \/ Len(x) < Len(y)
                      \/ Len(x) = Len(y) /\ StrLess(x, y)
         IN <<k>> \o SortedKeys_shortest_first(K \ {k})

\* The keys of a std::map in iteration order.
RECURSIVE SortedKeys(_)
SortedKeys(K) ==
    IF K = {} THEN <<>>
    ELSE LET k == CHOOSE x \in K : \A y \in K \ {x} : StrLess(x, y)
         IN <<k>> \o SortedKeys(K \ {k})

(***************************************************************************)
(* JsonValue (json_logic.h): a struct with a type tag and one public field *)
(* per kind; a std::map is a function on its key set.                      *)
(***************************************************************************)
EmptyMap == <<>>

JsonValue_default ==
    [type |-> "NIL", string_value |-> "", number_value |-> 0,
     bool_value |-> FALSE, object_value |-> EmptyMap, array_value |-> <<>>]

makeString(s) == [JsonValue_default EXCEPT !.type = "STRING", !.string_value = s]
makeNumber(d) == [JsonValue_default EXCEPT !.type = "NUMBER", !.number_value = d]
\* Mutant: the factory sets the type and forgets the value.
makeBool_value_unset(b) == [JsonValue_default EXCEPT !.type = "BOOL"]
makeBool(b) == [JsonValue_default EXCEPT !.type = "BOOL", !.bool_value = b]
makeNull == JsonValue_default
makeObject == [JsonValue_default EXCEPT !.type = "OBJECT"]
makeArray == [JsonValue_default EXCEPT !.type = "ARRAY"]

\* object_value[key] = value on a std::map: insert or overwrite.
MapSet(m, key, value) ==
    [k \in (DOMAIN m) \cup {key} |-> IF k = key THEN value ELSE m[k]]

SetMember(obj, key, value) ==
    [obj EXCEPT !.object_value = MapSet(obj.object_value, key, value)]

PushBack(arr, value) ==
    [arr EXCEPT !.array_value = Append(arr.array_value, value)]

\* Mutant: the test of find() against end() inverted.
MapHas_inverted(m, key) == key \notin DOMAIN m

MapHas(m, key) == key \in DOMAIN m

\* std::map::at(key): the mapped value, or std::out_of_range when absent.
MapAt(m, key) ==
    IF key \in DOMAIN m THEN [thrown |-> FALSE, value |-> m[key]]
    ELSE [thrown |-> TRUE, value |-> JsonValue_default]

(***************************************************************************)
(* JsonValue::serialize (json_logic.cpp).  number_value holds integers of  *)
(* magnitude below 10^6 here, which operator<< prints as plain digits.     *)
(***************************************************************************)
Digits == "0123456789"

RECURSIVE NatToStr(_)
NatToStr(n) ==
    IF n < 10 THEN CharAt(Digits, n + 1)
    ELSE NatToStr(n \div 10) \o CharAt(Digits, (n % 10) + 1)

NumberToStr(d) == IF d < 0 THEN "-" \o NatToStr(0 - d) ELSE NatToStr(d)

RECURSIVE EscapeString(_)
EscapeString(s) ==
    IF Len(s) = 0 THEN ""
    ELSE LET c == CharAt(s, 1)
             e == IF c = "\"" THEN "\\\""
                  ELSE IF c = "\\" THEN "\\\\"
                  ELSE c
         IN e \o EscapeString(SubstrFrom(s, 2))

RECURSIVE serialize(_)
RECURSIVE SerializeMembers(_, _, _)
RECURSIVE SerializeElements(_, _)

\* The loop over object_value: keys in map order, comma before all but the first.
SerializeMembers(m, keys, first) ==
    IF keys = <<>> THEN ""
    ELSE (IF first THEN "" ELSE ",")
         \o "\"" \o Head(keys) \o "\":" \o serialize(m[Head(keys)])
         \o SerializeMembers(m, Tail(keys), FALSE)

SerializeElements(a, first) ==
    IF a = <<>> THEN ""
    ELSE (IF first THEN "" ELSE ",") \o serialize(Head(a))
         \o SerializeElements(Tail(a), FALSE)

serialize(v) ==
    CASE v.type = "STRING" -> "\"" \o EscapeString(v.string_value) \o "\""
      [] v.type = "NUMBER" -> NumberToStr(v.number_value)
      [] v.type = "BOOL" -> IF v.bool_value THEN "true" ELSE "false"
      [] v.type = "NIL" -> "null"
      [] v.type = "OBJECT" ->
            "{" \o SerializeMembers(v.object_value,
                                    SortedKeys(DOMAIN v.object_value), TRUE) \o "}"
      [] v.type = "ARRAY" -> "[" \o SerializeElements(v.array_value, TRUE) \o "]"

(***************************************************************************)
(* api_handler.cpp: process_api_request(endpoint, request).                *)
(***************************************************************************)
\* Mutants: an endpoint too many, an endpoint missing.
BROAD_SEARCH_ENDPOINTS_with_getGene ==
    {"getResearchAssociations", "getDrugGeneInteractions", "getPolygeneticRiskScores",
     "getGene"}

BROAD_SEARCH_ENDPOINTS_without_risk_scores ==
    {"getResearchAssociations", "getDrugGeneInteractions"}

BROAD_SEARCH_ENDPOINTS ==
    {"getResearchAssociations", "getDrugGeneInteractions", "getPolygeneticRiskScores"}

\* Mutant: the response carries the error object only.
create_error_response_error_only(message, error_code) ==
    LET error_obj == SetMember(SetMember(makeObject, "code", makeNumber(error_code)),
                               "message", makeString(message))
    IN SetMember(makeObject, "error", error_obj)

create_error_response(message, error_code) ==
    LET error_obj == SetMember(SetMember(makeObject, "code", makeNumber(error_code)),
                               "message", makeString(message))
    IN SetMember(SetMember(makeObject, "error", error_obj),
                 "success", makeBool(FALSE))

\* Mutant: the success response carries the flag only.
create_success_response_without_message(message) ==
    SetMember(makeObject, "success", makeBool(TRUE))

create_success_response(message) ==
    SetMember(SetMember(makeObject, "success", makeBool(TRUE)),
              "message", makeString(message))

\* Mutant: an array counts whether or not it is empty.
ParamIsValid_any_array(p) ==
    IF p.type # "NIL"
    THEN IF p.type = "STRING" /\ Len(p.string_value) # 0 THEN TRUE
         ELSE IF p.type = "ARRAY" THEN TRUE
         ELSE IF p.type # "STRING" /\ p.type # "ARRAY" THEN TRUE
         ELSE FALSE
    ELSE FALSE

\* Mutant: the branch for the other non-null types is missing.
ParamIsValid_strings_and_arrays_only(p) ==
    IF p.type # "NIL"
    THEN IF p.type = "STRING" /\ Len(p.string_value) # 0 THEN TRUE
         ELSE IF p.type = "ARRAY" /\ Len(p.array_value) # 0 THEN TRUE
         ELSE FALSE
    ELSE FALSE

\* The body of the for loop at one parameter: does it set has_valid_parameter?
ParamIsValid(p) ==
    IF p.type # "NIL"
    THEN IF p.type = "STRING" /\ Len(p.string_value) # 0 THEN TRUE
         ELSE IF p.type = "ARRAY" /\ Len(p.array_value) # 0 THEN TRUE
         ELSE IF p.type # "STRING" /\ p.type # "ARRAY" THEN TRUE
         ELSE FALSE
    ELSE FALSE

\* The for loop over parameters.object_value with its break.
RECURSIVE HasValidParameter(_, _)
HasValidParameter(m, keys) ==
    IF keys = <<>> THEN FALSE
    ELSE IF ParamIsValid(m[Head(keys)]) THEN TRUE
    ELSE HasValidParameter(m, Tail(keys))

\* The three error texts and the success text, as the handler concatenates them.
MissingParametersMessage(ep) == "Missing parameters object for endpoint: " \o ep

EmptyParametersMessage(ep) ==
    "Endpoint '" \o ep \o "' requires at least one search parameter to prevent overly broad queries."

\* Mutant: the text of the empty-parameters error pasted unchanged.
NoValidParameterMessage_pasted(ep) ==
    "Endpoint '" \o ep \o "' requires at least one search parameter to prevent overly broad queries."

NoValidParameterMessage(ep) ==
    "Endpoint '" \o ep \o "' requires at least one non-empty search parameter to prevent overly broad queries."

SuccessMessage(ep) == "Request processed successfully for endpoint: " \o ep

Returned(v) == [thrown |-> FALSE, value |-> v]
Thrown == [thrown |-> TRUE, value |-> JsonValue_default]

\* Mutant: only the members are looked at, not the type.
NoParameters_by_members_only(parameters) == DOMAIN parameters.object_value = {}

\* The test of the parameters before their values are looked at.
NoParameters(parameters) ==
    parameters.type # "OBJECT" \/ DOMAIN parameters.object_value = {}

process_api_request(ep, req) ==
    IF ep \in BROAD_SEARCH_ENDPOINTS
    THEN IF ~MapHas(req.object_value, "parameters")
         THEN Returned(create_error_response(MissingParametersMessage(ep), 400))
         ELSE LET at == MapAt(req.object_value, "parameters")
                  parameters == at.value
              IN IF at.thrown THEN Thrown
                 ELSE IF NoParameters(parameters)
                 THEN Returned(create_error_response(EmptyParametersMessage(ep), 400))
                 ELSE IF ~HasValidParameter(parameters.object_value,
                                            SortedKeys(DOMAIN parameters.object_value))
                 THEN Returned(create_error_response(NoValidParameterMessage(ep), 400))
                 ELSE Returned(create_success_response(SuccessMessage(ep)))
    ELSE Returned(create_success_response(SuccessMessage(ep)))

(***************************************************************************)
(* One-argument process_api_request(request) declared in api_handler.h and *)
(* exercised by unit_tests.cpp (BroadSearchParameterValidation): the       *)
(* endpoint is the request's "name", only a structurally empty parameters  *)
(* object is rejected, and the responses are the two literal objects of    *)
(* the end-to-end scenario.                                                *)
(***************************************************************************)
RequestName(req) == req.object_value["name"].string_value

\* A request as the header documents it: an object with a "name" string
\* and a "parameters" object.
DocumentedRequest(req) ==
    /\ req.type = "OBJECT"
    /\ "name" \in DOMAIN req.object_value
    /\ req.object_value["name"].type = "STRING"
    /\ "parameters" \in DOMAIN req.object_value
    /\ req.object_value["parameters"].type = "OBJECT"

error_response_by_name ==
    SetMember(makeObject, "error",
        SetMember(SetMember(makeObject, "code", makeNumber(400)), "message",
            makeString("At least one search parameter is required for this endpoint.")))

success_response_by_name == SetMember(makeObject, "success", makeBool(TRUE))

process_api_request_by_name(req) ==
    IF /\ RequestName(req) \in BROAD_SEARCH_ENDPOINTS
       /\ DOMAIN req.object_value["parameters"].object_value = {}
    THEN error_response_by_name
    ELSE success_response_by_name

(***************************************************************************)
(* Inputs of the handler.                                                  *)
(***************************************************************************)
ParamKeyPool == <<"gene_ids", "condition", "limit", "drug">>
ParamKeys == { ParamKeyPool[i] : i \in 1..MaxParams }

LeafValues ==
    { makeNull, makeString(""), makeString("COMT"), makeNumber(0), makeNumber(5),
      makeBool(FALSE), makeBool(TRUE), makeArray,
      PushBack(makeArray, makeString("COMT")), makeObject }

\* Every parameters object over the keys, each present key with a leaf value.
ParamObjects ==
    { [makeObject EXCEPT !.object_value = m] :
          m \in UNION { [K -> LeafValues] : K \in (SUBSET ParamKeys) \ {{}} } }
    \cup { makeObject }

\* A "parameters" member that is not an object; the fields are public, so a
\* value of another type can still carry members.
NonObjectParams ==
    { makeNull, makeString(""), makeString("COMT"), makeNumber(7), makeBool(TRUE),
      makeArray, PushBack(makeArray, makeString("COMT")),
      [makeNull EXCEPT !.object_value = [k \in {"gene_ids"} |-> makeString("COMT")]] }

RequestNames ==
    {"getResearchAssociations", "getDrugGeneInteractions", "getPolygeneticRiskScores",
     "getGene"}

Requests ==
    LET bases == { makeObject } \cup
                 { SetMember(makeObject, "name", makeString(n)) : n \in RequestNames }
    IN bases
       \cup { SetMember(b, "parameters", q) :
                  b \in bases, q \in ParamObjects \cup NonObjectParams }
       \cup { makeNull, makeString("parameters"), makeNumber(1),
              PushBack(makeArray, makeString("parameters")),
              [makeNull EXCEPT !.object_value =
                   [k \in {"parameters"} |-> makeObject]] }

Endpoints == RequestNames \cup {"", "getresearchassociations"}

(***************************************************************************)
(* The handler as a state machine: a call with an endpoint and a request   *)
(* is pending, then one of the two handlers answers.                       *)
(***************************************************************************)
\* No condition is evaluated.
ConditionIdle ==
    /\ condition = ""
    /\ guard_value = FALSE

\* No value is built, saved or loaded.
JsonIdle ==
    /\ json_value = JsonValue_default
    /\ inserted = <<>>
    /\ file = ""
    /\ parsed = Returned(JsonValue_default)

\* The part of a WorkflowContext the engine's model leaves alone.
ContextIdle ==
    /\ input_ = JsonValue_default
    /\ variables_ = EmptyMap
    /\ warnings_ = <<>>
    /\ calls = <<>>

\* No test program runs.
RunnerIdle ==
    /\ tests = <<>>
    /\ next_test = 0
    /\ total_stats = [passed |-> 0, failed |-> 0]
    /\ stdout_ = <<>>
    /\ exit_status = 0

RestIdle == ConditionIdle /\ JsonIdle /\ ContextIdle /\ RunnerIdle

\* No workflow engine: nothing runs and nothing is cached.
WorkflowIdle ==
    /\ workflow_name = ""
    /\ run_state = "Idle"
    /\ step_index = 0
    /\ tasks = <<>>
    /\ outputs_ = EmptyMap
    /\ errors_ = <<>>
    /\ cache_ = EmptyMap
    /\ cache_mutex = FALSE
    /\ client_pc = "out"
    /\ dispatches = EmptyMap
    /\ completed = EmptyMap
    /\ runs = 0
    /\ clears = 0

EngineIdle == WorkflowIdle /\ RestIdle

TplIdle ==
    /\ template_str = ""
    /\ context = EmptyMap
    /\ env = EmptyMap
    /\ result = ""
    /\ iters = 0

InitApi ==
    /\ pc = "api_call"
    /\ endpoint \in Endpoints
    /\ request \in Requests
    /\ response = JsonValue_default
    /\ thrown = FALSE
    /\ TplIdle
    /\ EngineIdle

ProcessApiRequest ==
    /\ pc = "api_call"
    /\ LET r == process_api_request(endpoint, request)
       IN /\ response' = r.value
          /\ thrown' = r.thrown
    /\ pc' = "api_return"
    /\ UNCHANGED <<endpoint, request>>
    /\ UNCHANGED tplVars
    /\ UNCHANGED engineVars

ProcessApiRequestByName ==
    /\ pc = "api_call"
    /\ DocumentedRequest(request)
    /\ response' = process_api_request_by_name(request)
    /\ thrown' = FALSE
    /\ pc' = "api_return_by_name"
    /\ UNCHANGED <<endpoint, request>>
    /\ UNCHANGED tplVars
    /\ UNCHANGED engineVars

NextApi == ProcessApiRequest \/ ProcessApiRequestByName

SpecApi == InitApi /\ [][NextApi]_vars

(***************************************************************************)
(* flexible_json_logic.cpp: FlexibleJsonValue::resolveTemplate.            *)
(***************************************************************************)
NoMatch == [found |-> FALSE, pos |-> npos, full_match |-> "", inner_content |-> ""]

\* Does \$\{([^}]+)\} match at position p?  The group runs up to the first
\* '}' after "${" and must not be empty.
MatchesAt(s, p) ==
    /\ p + 1 <= Len(s)
    /\ SubSeq(s, p, p + 1) = "${"
    /\ Find(s, "}", p + 2) > p + 2

\* Mutant: a match is looked for at the start of the string only.
regex_search_anchored(s) ==
    IF MatchesAt(s, 1)
    THEN LET e == Find(s, "}", 3)
         IN [found |-> TRUE, pos |-> 1,
             full_match |-> SubSeq(s, 1, e),
             inner_content |-> SubSeq(s, 3, e - 1)]
    ELSE NoMatch

\* std::regex_search: the leftmost match, its text and its group 1.
regex_search(s) ==
    LET starts == { p \in 1..Len(s) : MatchesAt(s, p) }
    IN IF starts = {} THEN NoMatch
       ELSE LET p == Min(starts)
                e == Find(s, "}", p + 2)
            IN [found |-> TRUE, pos |-> p,
                full_match |-> SubSeq(s, p, e),
                inner_content |-> SubSeq(s, p + 2, e - 1)]

\* std::getenv: the value of the variable, or a null pointer.
getenv(environment, name) ==
    IF name \in DOMAIN environment
    THEN [null |-> FALSE, value |-> environment[name]]
    ELSE [null |-> TRUE, value |-> ""]

\* Mutants of the replacement, one changed branch each: "config" drops the
\* default, "input" takes a default as CONFIG does, "env" falls back to the
\* context map, "other" leaves the key in place of an unknown type, "whole"
\* looks a CONFIG key up with its |DEFAULT as INPUT does.
ReplacementVariant(inner_content, colon_pos, ctx, environment, variant) ==
    LET type == Substr(inner_content, 1, colon_pos - 1)
        key == SubstrFrom(inner_content, colon_pos + 1)
        pipe_pos == Find(key, "|", 1)
        var_name == IF pipe_pos # npos THEN Substr(key, 1, pipe_pos - 1) ELSE key
        default_val == IF pipe_pos # npos THEN SubstrFrom(key, pipe_pos + 1) ELSE ""
    IN IF type = "ENV"
       THEN IF key \in DOMAIN environment THEN environment[key]
            ELSE IF variant = "env" /\ key \in DOMAIN ctx THEN ctx[key]
            ELSE ""
       ELSE IF type = "CONFIG"
       THEN IF variant = "whole"
            THEN IF key \in DOMAIN ctx THEN ctx[key] ELSE default_val
            ELSE IF var_name \in DOMAIN ctx THEN ctx[var_name]
            ELSE IF variant = "config" THEN ""
            ELSE default_val
       ELSE IF type = "INPUT"
       THEN IF variant = "input"
            THEN IF var_name \in DOMAIN ctx THEN ctx[var_name] ELSE default_val
            ELSE IF key \in DOMAIN ctx THEN ctx[key] ELSE ""
       ELSE IF variant = "other" THEN key
       ELSE ""

Replacement_config_without_default(inner_content, colon_pos, ctx, environment) ==
    ReplacementVariant(inner_content, colon_pos, ctx, environment, "config")

Replacement_input_with_default(inner_content, colon_pos, ctx, environment) ==
    ReplacementVariant(inner_content, colon_pos, ctx, environment, "input")

Replacement_env_from_context(inner_content, colon_pos, ctx, environment) ==
    ReplacementVariant(inner_content, colon_pos, ctx, environment, "env")

Replacement_unknown_keeps_key(inner_content, colon_pos, ctx, environment) ==
    ReplacementVariant(inner_content, colon_pos, ctx, environment, "other")

Replacement_config_whole_key(inner_content, colon_pos, ctx, environment) ==
    ReplacementVariant(inner_content, colon_pos, ctx, environment, "whole")

\* The replacement computed for group 1 = type ":" key.
Replacement(inner_content, colon_pos, ctx, environment) ==
    LET type == Substr(inner_content, 1, colon_pos - 1)
        key == SubstrFrom(inner_content, colon_pos + 1)
    IN IF type = "ENV"
       THEN LET env_val == getenv(environment, key)
            IN IF ~env_val.null THEN env_val.value ELSE ""
       ELSE IF type = "CONFIG"
       THEN LET pipe_pos == Find(key, "|", 1)
                var_name == IF pipe_pos # npos THEN Substr(key, 1, pipe_pos - 1) ELSE key
                default_val == IF pipe_pos # npos THEN SubstrFrom(key, pipe_pos + 1) ELSE ""
            IN IF var_name \in DOMAIN ctx THEN ctx[var_name] ELSE default_val
       ELSE IF type = "INPUT"
       THEN IF key \in DOMAIN ctx THEN ctx[key] ELSE ""
       ELSE ""

\* One pass through the body of the while loop on the string s.
LoopBody(s, ctx, environment) ==
    LET match == regex_search(s)
        colon_pos == Find(match.inner_content, ":", 1)
    IN IF colon_pos # npos
       THEN Replace(s, Find(s, match.full_match, 1), Len(match.full_match),
                    Replacement(match.inner_content, colon_pos, ctx, environment))
       ELSE s

(***************************************************************************)
(* Inputs of resolveTemplate: a template is a concatenation of at most     *)
(* MaxSegs pieces of text, placeholders and placeholder fragments.         *)
(***************************************************************************)
Pieces ==
    { "x", "$", "}", "{INPUT:a}", "${INPUT:a}", "${INPUT:b}", "${CONFIG:n|d}",
      "${ENV:K}", "${Q:r}", "${bad}" }

RECURSIVE TemplatesOf(_)
TemplatesOf(n) ==
    IF n = 0 THEN {""}
    ELSE LET shorter == TemplatesOf(n - 1)
         IN shorter \cup { t \o q : t \in shorter, q \in Pieces }

Templates == TemplatesOf(MaxSegs)

Contexts ==
    { EmptyMap,
      [k \in {"a", "b"} |-> IF k = "a" THEN "12345" ELSE "{"],
      [k \in {"a", "n"} |-> IF k = "a" THEN "${INPUT:b}" ELSE "100"],
      [k \in {"b"} |-> "${INPUT:b}"] }

Environments == { EmptyMap, [k \in {"K"} |-> "test-key"] }

ApiIdle ==
    /\ endpoint = ""
    /\ request = JsonValue_default
    /\ response = JsonValue_default
    /\ thrown = FALSE

\* The call: result is a copy of the template.
InitTpl ==
    /\ pc = "tpl_loop"
    /\ template_str \in Templates
    /\ context \in Contexts
    /\ env \in Environments
    /\ result = template_str
    /\ iters = 0
    /\ ApiIdle
    /\ EngineIdle

\* The loop condition holds: one execution of the loop body.
ResolveTemplateIteration ==
    /\ pc = "tpl_loop"
    /\ regex_search(result).found
    /\ iters < MaxIters
    /\ result' = LoopBody(result, context, env)
    /\ iters' = iters + 1
    /\ UNCHANGED <<pc, template_str, context, env>>
    /\ UNCHANGED apiVars
    /\ UNCHANGED engineVars

\* The loop condition fails: return result.
ResolveTemplateReturn ==
    /\ pc = "tpl_loop"
    /\ ~regex_search(result).found
    /\ pc' = "tpl_done"
    /\ UNCHANGED tplVars
    /\ UNCHANGED apiVars
    /\ UNCHANGED engineVars

NextTpl == ResolveTemplateIteration \/ ResolveTemplateReturn

SpecTpl == InitTpl /\ [][NextTpl]_vars

(***************************************************************************)
(* resolveTemplate on templates with one placeholder ${TYPE:KEY} between a *)
(* text before and a text after it, for every TYPE and KEY below.          *)
(***************************************************************************)
PlaceholderTypes == { "ENV", "CONFIG", "INPUT", "CALC", "EXTRACT", "", "config" }

PlaceholderKeys ==
    { "limit|50", "limit", "user_id", "user_id|0", "API_KEY", "timeout|", "|50", "a:b" }

TextsBefore == { "", "user=", "$" }
TextsAfter == { "", ", end", "${INPUT:user_id}" }

PlaceholderTemplates ==
    { before \o "${" \o type \o ":" \o key \o "}" \o after :
          before \in TextsBefore, type \in PlaceholderTypes,
          key \in PlaceholderKeys, after \in TextsAfter }

PlaceholderContexts ==
    { EmptyMap,
      [k \in {"user_id", "timeout"} |-> IF k = "user_id" THEN "12345" ELSE "100"],
      [k \in {"limit", "API_KEY", "user_id|0"} |->
           IF k = "limit" THEN "7" ELSE IF k = "API_KEY" THEN "ctx-key" ELSE "piped"] }

PlaceholderEnvironments ==
    { EmptyMap,
      [k \in {"API_KEY", "user_id"} |-> IF k = "API_KEY" THEN "test-key" ELSE "env-user"] }

InitPlaceholder ==
    /\ pc = "tpl_loop"
    /\ template_str \in PlaceholderTemplates
    /\ context \in PlaceholderContexts
    /\ env \in PlaceholderEnvironments
    /\ result = template_str
    /\ iters = 0
    /\ ApiIdle
    /\ EngineIdle

SpecPlaceholder == InitPlaceholder /\ [][NextTpl]_vars

(***************************************************************************)
(* The workflow engine.  WorkflowOperation, WorkflowStep, Workflow and     *)
(* WorkflowContext are the header's; the bodies of WorkflowEngine's        *)
(* methods are those of the design (sections 4.4 and 5): look the workflow *)
(* up, run its steps in order, per operation consult the cache, dispatch   *)
(* to the data source, store the output and populate the cache.            *)
(***************************************************************************)
CacheEnabled == SetMember(makeObject, "enabled", makeBool(TRUE))

Operation(name, data_source, parameters, output_key, cache_config) ==
    [name |-> name, data_source |-> data_source, parameters |-> parameters,
     output_key |-> output_key, cache_config |-> cache_config]

Step(execution_type, error_handling, operations) ==
    [execution_type |-> execution_type, error_handling |-> error_handling,
     operations |-> operations]

FetchGenes ==
    Operation("fetch_genes", "ncbi", "condition=depression", "genes", CacheEnabled)
FetchGenesAgain ==
    Operation("fetch_genes", "ncbi", "condition=depression", "genes_again", CacheEnabled)
FetchGenesOther ==
    Operation("fetch_genes", "ncbi", "condition=anxiety", "other_genes", CacheEnabled)
FetchVariants ==
    Operation("fetch_variants", "clinvar", "condition=depression", "variants", CacheEnabled)
FetchExpression ==
    Operation("fetch_expression", "gtex", "condition=depression", "expression", makeNull)

\* ConfigurationManager::workflows_, as loaded.
workflows_ ==
    [n \in {"gene_lookup", "gene_panel", "strict_lookup"} |->
        IF n = "gene_lookup"
        THEN [name |-> n,
              steps |-> << Step("sequential", "continue",
                                <<FetchGenes, FetchGenesAgain>>) >>]
        ELSE IF n = "gene_panel"
        THEN [name |-> n,
              steps |-> << Step("parallel", "continue",
                                <<FetchGenesOther, FetchVariants, FetchExpression>>) >>]
        ELSE [name |-> n,
              steps |-> << Step("sequential", "abort", <<FetchExpression>>),
                           Step("parallel", "abort", <<FetchVariants, FetchExpression>>) >>]]

\* The names executeWorkflow is called with.
WorkflowNames == (DOMAIN workflows_) \cup {"unknown_workflow"}

\* What a data source's execute returns, or that it fails (ExecutionError).
DataSourceResults == { makeString("r1"), makeString("r2") }
DataSourceOutcomes == { Returned(v) : v \in DataSourceResults } \cup {Thrown}

\* Mutant: every name counts as registered.
IsRegistered_always(name) == TRUE

IsRegistered(name) == MapHas(workflows_, name)

\* Mutant: the key leaves the resolved parameters out.
generateCacheKey_without_parameters(operation, resolved_params) ==
    operation.name \o "|" \o operation.data_source

generateCacheKey(operation, resolved_params) ==
    operation.name \o "|" \o operation.data_source \o "|" \o resolved_params

shouldUseCache(operation) ==
    /\ operation.cache_config.type = "OBJECT"
    /\ MapHas(operation.cache_config.object_value, "enabled")
    /\ operation.cache_config.object_value["enabled"].bool_value

setCacheValue(cache, key, value) == MapSet(cache, key, value)
getCacheValue(cache, key) == cache[key]
hasCacheValue(cache, key) == MapHas(cache, key)
clearCache(cache) == EmptyMap

\* Mutant: the lock is taken without waiting for it.
CanLock_always(mutex) == TRUE

\* The mutual-exclusion discipline of the cache: an access waits while
\* another one is inside.
CanLock(mutex) == ~mutex

\* WorkflowContext::setOutput, addError, hasErrors.
\* Mutant: the assignment replaces the map instead of one entry.
setOutput_replacing(outputs, key, value) == [k \in {key} |-> value]

setOutput(outputs, key, value) == MapSet(outputs, key, value)
addError(errors, error) == Append(errors, error)

\* Mutant: the negation of empty() is missing.
hasErrors_inverted(errors) == errors = <<>>

hasErrors(errors) == errors # <<>>

\* What identifies an operation for the cache: name, data source and
\* resolved parameters.
OperationIdentity(operation) ==
    <<operation.name, operation.data_source, operation.parameters>>

Count(counts, id) == IF id \in DOMAIN counts THEN counts[id] ELSE 0
Increment(counts, id) == MapSet(counts, id, Count(counts, id) + 1)

NewTasks(step) ==
    [t \in DOMAIN step.operations |-> [state |-> "ready", result |-> makeNull]]

Finished(task) == task.state \in {"done", "failed"}

ErrorMessage_of(operation) == "Operation failed: " \o operation.name

\* The outputs and errors of a parallel step, merged in declared order.
RECURSIVE MergeOutputs(_, _, _, _)
MergeOutputs(outputs, operations, ts, t) ==
    IF t > Len(operations) THEN outputs
    ELSE MergeOutputs(IF ts[t].state = "done"
                      THEN setOutput(outputs, operations[t].output_key, ts[t].result)
                      ELSE outputs,
                      operations, ts, t + 1)

RECURSIVE MergeErrors(_, _, _, _)
MergeErrors(errors, operations, ts, t) ==
    IF t > Len(operations) THEN errors
    ELSE MergeErrors(IF ts[t].state = "failed"
                     THEN addError(errors, ErrorMessage_of(operations[t]))
                     ELSE errors,
                     operations, ts, t + 1)

\* ConfigurationManager::getWorkflow: the workflow of that name, a default
\* Workflow when there is none.
getWorkflow(name) ==
    IF MapHas(workflows_, name) THEN workflows_[name]
    ELSE [name |-> "", steps |-> <<>>]

CurrentStep == getWorkflow(workflow_name).steps[step_index]
OperationOf(t) == CurrentStep.operations[t]
KeyOf(t) == generateCacheKey(OperationOf(t), OperationOf(t).parameters)

\* Sequential operations run one at a time in declared order.
MayRun(t) ==
    \/ CurrentStep.execution_type = "parallel"
    \/ \A u \in 1..(t - 1) : Finished(tasks[u])

otherVars == <<pc, apiVars, tplVars, restVars>>

InitEngine ==
    /\ pc = "engine"
    /\ ApiIdle
    /\ TplIdle
    /\ EngineIdle

RunOver == run_state \in {"Idle", "Succeeded", "PartiallyFailed", "Failed",
                          "WorkflowNotFound"}

\* executeWorkflow(name, input): look the workflow up, fail with
\* WorkflowNotFound when it is absent, else the run is pending with a fresh
\* context.
ExecuteWorkflow(name) ==
    /\ RunOver
    /\ runs < MaxRuns
    /\ runs' = runs + 1
    /\ workflow_name' = name
    /\ outputs_' = EmptyMap
    /\ errors_' = <<>>
    /\ IF ~IsRegistered(name)
       THEN /\ run_state' = "WorkflowNotFound"
            /\ step_index' = 0
            /\ tasks' = <<>>
       ELSE /\ run_state' = "Pending"
            /\ step_index' = 0
            /\ tasks' = <<>>
    /\ UNCHANGED <<cacheVars, dispatches, otherVars>>

\* The pending run starts its first step; a workflow without steps has
\* nothing to run.
StartRun ==
    /\ run_state = "Pending"
    /\ IF getWorkflow(workflow_name).steps = <<>>
       THEN /\ run_state' = "Succeeded"
            /\ UNCHANGED <<step_index, tasks>>
       ELSE /\ run_state' = "Running"
            /\ step_index' = 1
            /\ tasks' = NewTasks(getWorkflow(workflow_name).steps[1])
    /\ UNCHANGED <<workflow_name, outputs_, errors_>>
    /\ UNCHANGED <<cacheVars, dispatches, runs, otherVars>>

\* The operation's output is stored: at once in a sequential step, at the
\* end of the step in a parallel one.
FinishOperation(t, value) ==
    /\ tasks' = [tasks EXCEPT ![t] = [state |-> "done", result |-> value]]
    /\ outputs_' = IF CurrentStep.execution_type = "parallel" THEN outputs_
                   ELSE setOutput(outputs_, OperationOf(t).output_key, value)
    /\ UNCHANGED <<workflow_name, run_state, step_index, errors_>>

\* handleOperationError: record the error; a sequential step with the abort
\* policy ends the run.
FailOperation(t) ==
    /\ tasks' = [tasks EXCEPT ![t].state = "failed"]
    /\ IF CurrentStep.execution_type = "parallel"
       THEN UNCHANGED <<errors_, run_state>>
       ELSE /\ errors_' = addError(errors_, ErrorMessage_of(OperationOf(t)))
            /\ run_state' = IF CurrentStep.error_handling = "abort"
                            THEN "Failed" ELSE run_state
    /\ UNCHANGED <<workflow_name, step_index, outputs_>>

\* executeOperation begins: enter the cache lookup when the operation uses
\* the cache, dispatch to the data source otherwise.
StartOperation(t) ==
    /\ run_state = "Running"
    /\ t \in DOMAIN tasks
    /\ tasks[t].state = "ready"
    /\ MayRun(t)
    /\ IF shouldUseCache(OperationOf(t))
       THEN /\ CanLock(cache_mutex)
            /\ cache_mutex' = TRUE
            /\ tasks' = [tasks EXCEPT ![t].state = "in_lookup"]
            /\ UNCHANGED dispatches
       ELSE /\ tasks' = [tasks EXCEPT ![t].state = "dispatching"]
            /\ dispatches' = Increment(dispatches, OperationIdentity(OperationOf(t)))
            /\ UNCHANGED cache_mutex
    /\ UNCHANGED <<workflow_name, run_state, step_index, outputs_, errors_>>
    /\ UNCHANGED <<cache_, client_pc, completed, clears, runs, otherVars>>

\* The lookup leaves the cache: a hit is the operation's result, a miss
\* dispatches.
LeaveLookup(t) ==
    /\ run_state = "Running"
    /\ t \in DOMAIN tasks
    /\ tasks[t].state = "in_lookup"
    /\ cache_mutex' = FALSE
    /\ IF hasCacheValue(cache_, KeyOf(t))
       THEN /\ FinishOperation(t, getCacheValue(cache_, KeyOf(t)))
            /\ UNCHANGED dispatches
       ELSE /\ tasks' = [tasks EXCEPT ![t].state = "dispatching"]
            /\ dispatches' = Increment(dispatches, OperationIdentity(OperationOf(t)))
            /\ UNCHANGED <<workflow_name, run_state, step_index, outputs_, errors_>>
    /\ UNCHANGED <<cache_, client_pc, completed, clears, runs, otherVars>>

\* The data source's execute returns a value or fails.
DataSourceReturns(t, outcome) ==
    /\ run_state = "Running"
    /\ t \in DOMAIN tasks
    /\ tasks[t].state = "dispatching"
    /\ IF outcome.thrown
       THEN FailOperation(t)
       ELSE IF shouldUseCache(OperationOf(t))
       THEN /\ tasks' = [tasks EXCEPT ![t] = [state |-> "got_result",
                                               result |-> outcome.value]]
            /\ UNCHANGED <<workflow_name, run_state, step_index, outputs_, errors_>>
       ELSE FinishOperation(t, outcome.value)
    /\ UNCHANGED <<cacheVars, dispatches, runs, otherVars>>

\* setCacheValue is entered with the result of the dispatch.
EnterStore(t) ==
    /\ run_state = "Running"
    /\ t \in DOMAIN tasks
    /\ tasks[t].state = "got_result"
    /\ CanLock(cache_mutex)
    /\ cache_mutex' = TRUE
    /\ tasks' = [tasks EXCEPT ![t].state = "in_store"]
    /\ UNCHANGED <<workflow_name, run_state, step_index, outputs_, errors_>>
    /\ UNCHANGED <<cache_, client_pc, completed, clears, dispatches, runs, otherVars>>

\* setCacheValue stores the entry and leaves; the operation is done.
LeaveStore(t) ==
    /\ run_state = "Running"
    /\ t \in DOMAIN tasks
    /\ tasks[t].state = "in_store"
    /\ cache_' = setCacheValue(cache_, KeyOf(t), tasks[t].result)
    /\ cache_mutex' = FALSE
    /\ completed' = MapSet(completed, OperationIdentity(OperationOf(t)),
                           tasks[t].result)
    /\ FinishOperation(t, tasks[t].result)
    /\ UNCHANGED <<client_pc, clears, dispatches, runs, otherVars>>

\* Every operation of the step has finished or failed: a parallel step
\* merges its results into the context, then the next step starts or the
\* run ends.
FinishStep ==
    /\ run_state = "Running"
    /\ \A t \in DOMAIN tasks : Finished(tasks[t])
    /\ LET parallel == CurrentStep.execution_type = "parallel"
           errors == IF parallel
                     THEN MergeErrors(errors_, CurrentStep.operations, tasks, 1)
                     ELSE errors_
           aborted == /\ parallel
                      /\ CurrentStep.error_handling = "abort"
                      /\ \E t \in DOMAIN tasks : tasks[t].state = "failed"
           last == step_index = Len(getWorkflow(workflow_name).steps)
       IN /\ outputs_' = IF parallel
                         THEN MergeOutputs(outputs_, CurrentStep.operations, tasks, 1)
                         ELSE outputs_
          /\ errors_' = errors
          /\ IF aborted \/ last
             THEN /\ run_state' = IF aborted THEN "Failed"
                                  ELSE IF hasErrors(errors) THEN "PartiallyFailed"
                                  ELSE "Succeeded"
                  /\ UNCHANGED <<step_index, tasks>>
             ELSE /\ step_index' = step_index + 1
                  /\ tasks' = NewTasks(getWorkflow(workflow_name).steps[step_index + 1])
                  /\ UNCHANGED run_state
    /\ UNCHANGED <<workflow_name, cacheVars, dispatches, runs, otherVars>>

\* clearCache, called by the engine's owner while the engine may be running.
EnterClearCache ==
    /\ client_pc = "out"
    /\ clears < MaxClears
    /\ CanLock(cache_mutex)
    /\ cache_mutex' = TRUE
    /\ client_pc' = "in_clear"
    /\ UNCHANGED <<runVars, cache_, completed, clears, dispatches, runs, otherVars>>

LeaveClearCache ==
    /\ client_pc = "in_clear"
    /\ cache_' = clearCache(cache_)
    /\ completed' = EmptyMap
    /\ cache_mutex' = FALSE
    /\ client_pc' = "out"
    /\ clears' = clears + 1
    /\ UNCHANGED <<runVars, dispatches, runs, otherVars>>

\* The positions an operation can have in a step.
TaskIds ==
    UNION { UNION { DOMAIN workflows_[n].steps[i].operations :
                        i \in DOMAIN workflows_[n].steps } :
            n \in DOMAIN workflows_ }

NextEngine ==
    \/ \E name \in WorkflowNames : ExecuteWorkflow(name)
    \/ StartRun
    \/ \E t \in TaskIds : StartOperation(t)
    \/ \E t \in TaskIds : LeaveLookup(t)
    \/ \E t \in TaskIds, outcome \in DataSourceOutcomes : DataSourceReturns(t, outcome)
    \/ \E t \in TaskIds : EnterStore(t)
    \/ \E t \in TaskIds : LeaveStore(t)
    \/ FinishStep
    \/ EnterClearCache
    \/ LeaveClearCache

SpecEngine == InitEngine /\ [][NextEngine]_vars

(***************************************************************************)
(* FlexibleJsonValue::evaluateCondition (flexible_json_logic.cpp): the     *)
(* guard of a step or operation, evaluated against the context variables.  *)
(***************************************************************************)
evaluateCondition(cond, ctx) == TRUE

\* Guards as workflows write them, well formed and not.
Conditions ==
    { "condition == depression", "condition != anxiety", "depth > 3", "depth < 3",
      "condition exists", "analysis_depth == comprehensive",
      "", "depression", "condition ==", "== depression", "condition ~ depression",
      "condition == depression now", "depth >", "exists" }

ConditionContexts ==
    { EmptyMap,
      [k \in {"condition"} |-> makeString("depression")],
      [k \in {"condition", "depth"} |->
          IF k = "depth" THEN makeNumber(5) ELSE makeString("anxiety")],
      [k \in {"depth"} |-> makeNumber(1)] }

InitCondition ==
    /\ pc = "condition_call"
    /\ condition \in Conditions
    /\ variables_ \in ConditionContexts
    /\ guard_value = FALSE
    /\ input_ = JsonValue_default
    /\ warnings_ = <<>>
    /\ calls = <<>>
    /\ ApiIdle
    /\ TplIdle
    /\ WorkflowIdle
    /\ JsonIdle
    /\ RunnerIdle

EvaluateCondition ==
    /\ pc = "condition_call"
    /\ guard_value' = evaluateCondition(condition, variables_)
    /\ pc' = "condition_return"
    /\ UNCHANGED <<condition, jsonVars, contextVars, runnerVars>>
    /\ UNCHANGED <<apiVars, tplVars, runVars, cacheVars, dispatches, runs>>

NextCondition == EvaluateCondition

SpecCondition == InitCondition /\ [][NextCondition]_vars

(***************************************************************************)
(* JsonValue::parse (json_logic.cpp).  Indices are the code's: i counts    *)
(* from 0 and s[i] with i = s.size() reads the terminating NUL; s[i]       *)
(* beyond that is a read outside the string, whose outcome is undefined.   *)
(* A parser result carries a status: "ok", "throw" (std::invalid_argument  *)
(* of std::stod, std::out_of_range of substr) or "undefined".              *)
(***************************************************************************)
NUL == ""

At(s, i) == IF i < Len(s) THEN CharAt(s, i + 1) ELSE NUL

isspace(c) == c = " "
isdigit(c) == c # NUL /\ Contains(Digits, c)

RECURSIVE skip_space(_, _)
skip_space(s, i) ==
    IF i < Len(s) /\ isspace(At(s, i)) THEN skip_space(s, i + 1) ELSE i

ParseResult(value, i, status) == [value |-> value, i |-> i, status |-> status]

\* parse_string: no escapes, the string ends at the next quote character.
parse_string(s, i) ==
    LET start == i + 1
        quote == Find(s, "\"", start + 1)
        end == IF start >= Len(s) THEN start
               ELSE IF quote = npos THEN Len(s) ELSE quote - 1
    IN IF start > Len(s) THEN ParseResult("", end + 1, "throw")
       ELSE ParseResult(SubSeq(s, start + 1, end), end + 1, "ok")

RECURSIVE StrToNat(_)
StrToNat(digits) ==
    IF Len(digits) = 0 THEN 0
    ELSE StrToNat(SubSeq(digits, 1, Len(digits) - 1)) * 10
         + (Find(Digits, CharAt(digits, Len(digits)), 1) - 1)

RECURSIVE DigitsPrefix(_)
DigitsPrefix(s) ==
    IF Len(s) > 0 /\ isdigit(CharAt(s, 1))
    THEN CharAt(s, 1) \o DigitsPrefix(SubstrFrom(s, 2))
    ELSE ""

\* std::stod on a token of digits, '.' and '-': the longest prefix that is
\* a number, std::invalid_argument when there is none.  A fraction other
\* than zeros has no value among the integers of number_value here.
stod(token) ==
    LET negative == Len(token) > 0 /\ CharAt(token, 1) = "-"
        body == IF negative THEN SubstrFrom(token, 2) ELSE token
        whole == DigitsPrefix(body)
        rest == SubstrFrom(body, Len(whole) + 1)
        fraction == IF Len(rest) > 0 /\ CharAt(rest, 1) = "."
                    THEN DigitsPrefix(SubstrFrom(rest, 2)) ELSE ""
        magnitude == IF StrToNat(fraction) = 0 THEN StrToNat(whole)
                     ELSE CHOOSE n \in {} : TRUE
    IN IF whole = "" /\ fraction = "" THEN [thrown |-> TRUE, value |-> 0]
       ELSE [thrown |-> FALSE, value |-> IF negative THEN 0 - magnitude ELSE magnitude]

RECURSIVE NumberEnd(_, _)
NumberEnd(s, i) ==
    IF i < Len(s) /\ (isdigit(At(s, i)) \/ At(s, i) = "." \/ At(s, i) = "-")
    THEN NumberEnd(s, i + 1) ELSE i

RECURSIVE parse_value(_, _)
RECURSIVE ParseMembers(_, _, _)

\* The loop of parse_object, entered with i after '{' and the white space.
ParseMembers(s, i, obj) ==
    IF ~(i < Len(s) /\ At(s, i) # "}") THEN ParseResult(obj, i + 1, "ok")
    ELSE LET key == parse_string(s, i)
             colon == skip_space(s, key.i)
             member == parse_value(s, skip_space(s, colon + 1))
             after == skip_space(s, member.i)
         IN IF key.status # "ok" THEN ParseResult(obj, key.i, key.status)
            ELSE IF member.status # "ok" THEN ParseResult(obj, member.i, member.status)
            ELSE IF after > Len(s) THEN ParseResult(obj, after, "undefined")
            ELSE ParseMembers(s,
                              IF At(s, after) = "," THEN skip_space(s, after + 1)
                              ELSE after,
                              SetMember(obj, key.value, member.value))

parse_object(s, i) == ParseMembers(s, skip_space(s, i + 1), makeObject)

parse_value(s, i0) ==
    LET i == skip_space(s, i0)
        c == At(s, i)
    IN IF i > Len(s) THEN ParseResult(makeNull, i, "undefined")
       ELSE IF c = "\"" THEN
            LET str == parse_string(s, i)
            IN ParseResult(makeString(str.value), str.i, str.status)
       ELSE IF c = "{" THEN parse_object(s, i)
       ELSE IF c = "t" THEN ParseResult(makeBool(TRUE), i + 4, "ok")
       ELSE IF c = "f" THEN ParseResult(makeBool(FALSE), i + 5, "ok")
       ELSE IF c = "n" THEN ParseResult(makeNull, i + 4, "ok")
       ELSE LET end == NumberEnd(s, i)
                num == stod(SubSeq(s, i + 1, end))
            IN IF num.thrown THEN ParseResult(makeNull, end, "throw")
               ELSE ParseResult(makeNumber(num.value), end, "ok")

parse(s) == parse_value(s, 0)

(***************************************************************************)
(* Building, saving and loading a JsonValue (json_logic.h, api_logic.cpp). *)
(* A caller fills an object with object_value[key] = value, save_to_file   *)
(* writes serialize() to a writable file and load_from_file parses the     *)
(* file's content, or returns null when the file cannot be opened; the     *)
(* empty content stands for the file that does not exist, since serialize  *)
(* never writes nothing.  inserted records the keys in the order of their  *)
(* first insertion.                                                        *)
(***************************************************************************)
InsertKeys == {"key", "num", "identifier"}

InsertValues ==
    { makeString("value"), makeNumber(10), makeBool(TRUE), makeNull,
      makeString("say \"hi\""), PushBack(makeArray, makeNumber(1)),
      SetMember(makeObject, "id", makeNumber(123)) }

JsonSeeds ==
    { makeObject, makeArray, PushBack(makeArray, makeNumber(1)),
      makeString("data"), makeString("say \"hi\""), makeString("back\\slash"),
      makeNumber(10), makeNumber(0 - 3), makeBool(TRUE), makeBool(FALSE), makeNull }

InitJson ==
    /\ pc = "json_build"
    /\ json_value \in JsonSeeds
    /\ inserted = <<>>
    /\ file = ""
    /\ parsed = Returned(JsonValue_default)
    /\ ApiIdle /\ TplIdle /\ WorkflowIdle
    /\ ConditionIdle /\ ContextIdle /\ RunnerIdle

jsonFrame == <<apiVars, tplVars, runVars, cacheVars, dispatches, runs,
               conditionVars, contextVars, runnerVars>>

InRange(seq, x) == \E i \in DOMAIN seq : seq[i] = x

\* json_value.object_value[key] = value.
InsertMember(key, value) ==
    /\ pc = "json_build"
    /\ json_value.type = "OBJECT"
    /\ Len(inserted) < MaxInserts
    /\ json_value' = SetMember(json_value, key, value)
    /\ inserted' = IF InRange(inserted, key) THEN inserted ELSE Append(inserted, key)
    /\ UNCHANGED <<pc, file, parsed>>
    /\ UNCHANGED jsonFrame

\* save_to_file(filename, json_value) on a file that can be written.
SaveToFile ==
    /\ pc = "json_build"
    /\ file' = serialize(json_value)
    /\ pc' = "json_saved"
    /\ UNCHANGED <<json_value, inserted, parsed>>
    /\ UNCHANGED jsonFrame

\* What a read outside the string may lead to: an exception or any value.
UndefinedOutcomes == {Thrown} \cup {Returned(v) : v \in JsonSeeds}

LoadOutcomes(content) ==
    LET r == parse(content)
    IN IF content = "" THEN {Returned(makeNull)}
       ELSE IF r.status = "ok" THEN {Returned(r.value)}
       ELSE IF r.status = "throw" THEN {Thrown}
       ELSE UndefinedOutcomes

\* load_from_file(filename), before or after the file was written.
LoadFromFile ==
    /\ pc \in {"json_build", "json_saved"}
    /\ parsed' \in LoadOutcomes(file)
    /\ pc' = "json_loaded"
    /\ UNCHANGED <<json_value, inserted, file>>
    /\ UNCHANGED jsonFrame

NextJson ==
    \/ \E key \in InsertKeys, value \in InsertValues : InsertMember(key, value)
    \/ SaveToFile
    \/ LoadFromFile

SpecJson == InitJson /\ [][NextJson]_vars

(***************************************************************************)
(* WorkflowContext (flexible_json_logic.h) under an arbitrary caller; calls *)
(* records the methods called and the messages passed, in call order.      *)
(***************************************************************************)
setInput(input) == input
setVariable(variables, key, value) == MapSet(variables, key, value)

\* Mutant: a warning already present is not stored again.
addWarning_once(warnings, warning) ==
    IF InRange(warnings, warning) THEN warnings ELSE Append(warnings, warning)

addWarning(warnings, warning) == Append(warnings, warning)
getErrors(errors) == errors
getWarnings(warnings) == warnings

ContextKeys == {"gene", "depth"}
ContextValues == {makeString("COMT"), makeNumber(2)}
Messages == {"timeout", "not found"}

Call(method, message) == [method |-> method, message |-> message]

InitContext ==
    /\ pc = "context"
    /\ ApiIdle /\ TplIdle /\ WorkflowIdle
    /\ ConditionIdle /\ JsonIdle /\ ContextIdle /\ RunnerIdle

contextFrame == <<pc, apiVars, tplVars, workflow_name, run_state, step_index, tasks,
                  cacheVars, dispatches, runs, conditionVars, jsonVars, runnerVars>>

MayCall == pc = "context" /\ Len(calls) < MaxCalls

SetInput(input) ==
    /\ MayCall
    /\ input_' = setInput(input)
    /\ calls' = Append(calls, Call("setInput", ""))
    /\ UNCHANGED <<variables_, outputs_, errors_, warnings_>>
    /\ UNCHANGED contextFrame

SetVariable(key, value) ==
    /\ MayCall
    /\ variables_' = setVariable(variables_, key, value)
    /\ calls' = Append(calls, Call("setVariable", ""))
    /\ UNCHANGED <<input_, outputs_, errors_, warnings_>>
    /\ UNCHANGED contextFrame

SetOutput(key, value) ==
    /\ MayCall
    /\ outputs_' = setOutput(outputs_, key, value)
    /\ calls' = Append(calls, Call("setOutput", ""))
    /\ UNCHANGED <<input_, variables_, errors_, warnings_>>
    /\ UNCHANGED contextFrame

AddError(error) ==
    /\ MayCall
    /\ errors_' = addError(errors_, error)
    /\ calls' = Append(calls, Call("addError", error))
    /\ UNCHANGED <<input_, variables_, outputs_, warnings_>>
    /\ UNCHANGED contextFrame

AddWarning(warning) ==
    /\ MayCall
    /\ warnings_' = addWarning(warnings_, warning)
    /\ calls' = Append(calls, Call("addWarning", warning))
    /\ UNCHANGED <<input_, variables_, outputs_, errors_>>
    /\ UNCHANGED contextFrame

NextContext ==
    \/ \E input \in ContextValues : SetInput(input)
    \/ \E key \in ContextKeys, value \in ContextValues : SetVariable(key, value)
    \/ \E key \in ContextKeys, value \in ContextValues : SetOutput(key, value)
    \/ \E error \in Messages : AddError(error)
    \/ \E warning \in Messages : AddWarning(warning)

SpecContext == InitContext /\ [][NextContext]_vars

(***************************************************************************)
(* The test-runner program (test_runner_main.cpp, testing_framework.h).    *)
(* run_all names the members of TestInfo first and second where the struct *)
(* has name and func; the model reads them as the name and the function.   *)
(* A test is what it does to its TestStats: the assertions that pass, the  *)
(* assertions that fail, and whether it then throws.  tests holds the      *)
(* registered tests in the order run_all walks them, stdout_ the lines     *)
(* written to the standard output.                                         *)
(***************************************************************************)
TestKinds == [passed : 0 .. 1, failed : 0 .. 1, throws : BOOLEAN]

RECURSIVE SeqsUpTo(_, _)
SeqsUpTo(S, n) ==
    IF n = 0 THEN {<<>>}
    ELSE LET shorter == SeqsUpTo(S, n - 1)
         IN shorter \cup {Append(q, x) : q \in shorter, x \in S}

InitRunner ==
    /\ pc = "runner_main"
    /\ tests \in SeqsUpTo(TestKinds, MaxTests)
    /\ next_test = 0
    /\ total_stats = [passed |-> 0, failed |-> 0]
    /\ stdout_ = <<>>
    /\ exit_status = 0
    /\ ApiIdle /\ TplIdle /\ WorkflowIdle
    /\ ConditionIdle /\ JsonIdle /\ ContextIdle

runnerFrame == <<apiVars, tplVars, runVars, cacheVars, dispatches, runs,
                 conditionVars, jsonVars, contextVars>>

\* main up to the call of run_all, and the head of run_all.
StartRunAll ==
    /\ pc = "runner_main"
    /\ stdout_' = stdout_ \o <<"Running unit test suite...", "Running all unit tests...">>
    /\ next_test' = 1
    /\ pc' = "runner_loop"
    /\ UNCHANGED <<tests, total_stats, exit_status>>
    /\ UNCHANGED runnerFrame

\* The TestStats of one test after the try block: an exception counts as
\* one more failure on top of what the test recorded before it.
StatsOf(test) ==
    [passed |-> test.passed,
     failed |-> test.failed + (IF test.throws THEN 1 ELSE 0)]

\* What the body of the loop writes to the standard output; the report of
\* an exception goes to the standard error.
LinesOf(test) ==
    <<"[RUN     ] ">> \o
    (IF test.throws THEN <<>>
     ELSE IF test.failed = 0 THEN <<"[   OK   ] ">> ELSE <<"[ FAILED ] ">>)

\* One iteration of the loop of run_all.
RunTest ==
    /\ pc = "runner_loop"
    /\ next_test <= Len(tests)
    /\ LET test_stats == StatsOf(tests[next_test])
       IN total_stats' = [passed |-> total_stats.passed + test_stats.passed,
                          failed |-> total_stats.failed + test_stats.failed]
    /\ stdout_' = stdout_ \o LinesOf(tests[next_test])
    /\ next_test' = next_test + 1
    /\ UNCHANGED <<pc, tests, exit_status>>
    /\ UNCHANGED runnerFrame

\* The conversion of run_all's int to main's bool.
IntToBool(n) == n # 0

\* run_all returns total_stats.failed and main branches on it as a bool.
MainReturns ==
    /\ pc = "runner_loop"
    /\ next_test > Len(tests)
    /\ LET all_tests_passed == IntToBool(total_stats.failed)
       IN IF all_tests_passed
          THEN /\ stdout_' = Append(stdout_, "All tests passed!")
               /\ exit_status' = 0
          ELSE /\ stdout_' = Append(stdout_, "Some tests failed!")
               /\ exit_status' = 1
    /\ pc' = "runner_exit"
    /\ UNCHANGED <<tests, next_test, total_stats>>
    /\ UNCHANGED runnerFrame

NextRunner == StartRunAll \/ RunTest \/ MainReturns

SpecRunner == InitRunner /\ [][NextRunner]_vars

(***************************************************************************)
(* Properties of the handler.                                              *)
(***************************************************************************)
Answered == pc = "api_return"
AnsweredByName == pc = "api_return_by_name"

HasParameters(req) == "parameters" \in DOMAIN req.object_value
Parameters(req) == req.object_value["parameters"]

IsFailure(resp) ==
    /\ resp.type = "OBJECT"
    /\ "success" \in DOMAIN resp.object_value
    /\ resp.object_value["success"] = makeBool(FALSE)
    /\ "error" \in DOMAIN resp.object_value

IsSuccess(resp) ==
    /\ resp.type = "OBJECT"
    /\ "success" \in DOMAIN resp.object_value
    /\ resp.object_value["success"] = makeBool(TRUE)

ErrorMessage(resp) == resp.object_value["error"].object_value["message"].string_value

\* A value that is not null, not an empty string and not an empty array.
Meaningful(v) ==
    /\ v.type # "NIL"
    /\ ~(v.type = "STRING" /\ v.string_value = "")
    /\ ~(v.type = "ARRAY" /\ v.array_value = <<>>)

IsObjectWith(v, n) == v.type = "OBJECT" /\ Cardinality(DOMAIN v.object_value) = n

\* The three broad-search endpoints the properties are about.
BroadSearchNames ==
    {"getResearchAssociations", "getDrugGeneInteractions", "getPolygeneticRiskScores"}

MissingPhrase == "Missing parameters object"
EmptyPhrase == "requires at least one search parameter"
NonEmptyPhrase == "requires at least one non-empty search parameter"

\* C1: for a broad-search endpoint and a request without a "parameters"
\* member the handler returns a failure whose message contains
\* "Missing parameters object", never success.
C1_MissingParametersRejected ==
    (Answered /\ endpoint \in BroadSearchNames /\ ~HasParameters(request))
        => /\ ~thrown
           /\ IsFailure(response)
           /\ ~IsSuccess(response)
           /\ Contains(ErrorMessage(response), MissingPhrase)

C1_Witness ==
    /\ Answered
    /\ endpoint = "getDrugGeneInteractions"
    /\ request = makeObject
    /\ IsFailure(response)
    /\ ErrorMessage(response) = "Missing parameters object for endpoint: getDrugGeneInteractions"

C3_MeaningfulParameterAccepted ==
    (/\ Answered
     /\ endpoint \in BroadSearchNames
     /\ HasParameters(request)
     /\ Parameters(request).type = "OBJECT"
     /\ \E k \in DOMAIN Parameters(request).object_value :
            Meaningful(Parameters(request).object_value[k]))
        => /\ ~thrown
           /\ IsSuccess(response)
           /\ "error" \notin DOMAIN response.object_value

C3_Witness ==
    /\ Answered
    /\ endpoint = "getResearchAssociations"
    /\ HasParameters(request)
    /\ IsObjectWith(Parameters(request), 2)
    /\ \E k \in DOMAIN Parameters(request).object_value :
           Parameters(request).object_value[k] = makeNull
    /\ \E k \in DOMAIN Parameters(request).object_value :
           Parameters(request).object_value[k] = makeNumber(0)
    /\ IsSuccess(response)

\* C4: for every endpoint name outside the three broad-search names the
\* handler returns success for any request: parameters empty, all null,
\* not an object, or absent.
C4_OtherEndpointsAccepted ==
    (Answered /\ endpoint \notin BroadSearchNames)
        => /\ ~thrown
           /\ IsSuccess(response)
           /\ "error" \notin DOMAIN response.object_value

C4_Witness ==
    /\ Answered
    /\ endpoint = "getGene"
    /\ HasParameters(request)
    /\ Parameters(request) = makeObject
    /\ IsSuccess(response)

\* C5: for a broad-search endpoint every failure carries exactly one of the
\* three identifying phrases, chosen by the cause: no "parameters" member,
\* an empty "parameters", or a non-empty "parameters" object whose values
\* are all null, "" or [].
FailureClass(req) ==
    IF ~HasParameters(req) THEN "missing"
    ELSE IF Parameters(req).type # "OBJECT" \/ DOMAIN Parameters(req).object_value = {}
    THEN "empty"
    ELSE "all_empty"

PhrasesIn(msg) ==
    { c \in {"missing", "empty", "all_empty"} :
          Contains(msg, CASE c = "missing" -> MissingPhrase
                          [] c = "empty" -> EmptyPhrase
                          [] c = "all_empty" -> NonEmptyPhrase) }

C8_NeverThrows ==
    Answered => (~thrown /\ (IsFailure(response) \/ IsSuccess(response)))

C8_Witness ==
    /\ Answered
    /\ endpoint \in BroadSearchNames
    /\ request.type = "ARRAY"
    /\ ~thrown
    /\ IsFailure(response)

Resolved == pc = "tpl_done"

\* The template cut from left to right at its ${...} matches: each segment
\* is the text before a match and the match, the last one has no match.
RECURSIVE Scan(_)
Scan(s) ==
    LET match == regex_search(s)
    IN IF ~match.found THEN << [text |-> s, placeholder |-> ""] >>
       ELSE << [text |-> SubSeq(s, 1, match.pos - 1),
                placeholder |-> match.full_match] >>
            \o Scan(SubstrFrom(s, match.pos + Len(match.full_match)))

InnerOf(placeholder) == SubSeq(placeholder, 3, Len(placeholder) - 1)

WellFormed(placeholder) ==
    placeholder # "" /\ Contains(InnerOf(placeholder), ":")

\* The resolution of one well-formed placeholder on its own.
OwnResolution(placeholder, ctx, environment) ==
    Replacement(InnerOf(placeholder), Find(InnerOf(placeholder), ":", 1),
                ctx, environment)

\* The segments put together again, each well-formed placeholder replaced
\* by its own resolution and everything else left as it is.
RECURSIVE Substituted(_, _, _)
Substituted(segs, ctx, environment) ==
    IF segs = <<>> THEN ""
    ELSE Head(segs).text
         \o (IF WellFormed(Head(segs).placeholder)
             THEN OwnResolution(Head(segs).placeholder, ctx, environment)
             ELSE Head(segs).placeholder)
         \o Substituted(Tail(segs), ctx, environment)

SubstitutedValues(s, ctx, environment) ==
    LET segs == Scan(s)
    IN { OwnResolution(segs[i].placeholder, ctx, environment) :
             i \in { j \in DOMAIN segs : WellFormed(segs[j].placeholder) } }

\* Some well-formed placeholder of the template directly follows a '$'.
PlaceholderAfterDollar(s) ==
    LET segs == Scan(s)
    IN \E i \in DOMAIN segs :
           /\ WellFormed(segs[i].placeholder)
           /\ Len(segs[i].text) > 0
           /\ CharAt(segs[i].text, Len(segs[i].text)) = "$"

StartsWith(s, prefix) ==
    Len(s) >= Len(prefix) /\ SubSeq(s, 1, Len(prefix)) = prefix

\* The loop is about to replace a placeholder whose content starts with prefix.
AtPlaceholder(prefix) ==
    /\ pc = "tpl_loop"
    /\ regex_search(result).found
    /\ StartsWith(regex_search(result).inner_content, prefix)

\* The content of the leftmost placeholder after its first n characters.
KeyAfter(n) == SubstrFrom(regex_search(result).inner_content, n + 1)

\* The step puts value in the place of the leftmost match and changes
\* nothing else of result.
ReplacedBy(value) ==
    LET match == regex_search(result)
    IN result' = SubSeq(result, 1, match.pos - 1) \o value
                 \o SubstrFrom(result, match.pos + Len(match.full_match))

NameOf(key) ==
    IF Contains(key, "|") THEN SubSeq(key, 1, Find(key, "|", 1) - 1) ELSE key

DefaultOf(key) ==
    IF Contains(key, "|") THEN SubstrFrom(key, Find(key, "|", 1) + 1) ELSE ""

\* C11: ${CONFIG:NAME|DEFAULT} is replaced by the context's value for NAME
\* when NAME is a key of the context, by DEFAULT when it is not, and by the
\* empty string when it is not and no |DEFAULT is given.
C11_ConfigValueOrDefault ==
    [][AtPlaceholder("CONFIG:") =>
          LET key == KeyAfter(7)
          IN IF NameOf(key) \in DOMAIN context
             THEN ReplacedBy(context[NameOf(key)])
             ELSE IF Contains(key, "|") THEN ReplacedBy(DefaultOf(key))
             ELSE ReplacedBy("")]_vars

C11_Witness ==
    /\ Resolved
    /\ template_str = "${CONFIG:limit|50}"
    /\ context = EmptyMap
    /\ result = "50"

\* C12: ${INPUT:NAME} is replaced by the context's value for NAME, and by
\* the empty string when NAME is not a key of the context.
C12_InputValueOrEmpty ==
    [][AtPlaceholder("INPUT:") =>
          IF KeyAfter(6) \in DOMAIN context
          THEN ReplacedBy(context[KeyAfter(6)])
          ELSE ReplacedBy("")]_vars

C12_Witness ==
    /\ Resolved
    /\ template_str = "${INPUT:user_id}"
    /\ "user_id" \in DOMAIN context
    /\ context["user_id"] = "12345"
    /\ result = "12345"

\* C13: ${ENV:NAME} is replaced by the value of the environment variable
\* NAME, and by the empty string when it is unset, whatever the context
\* map holds for NAME.
C13_EnvValueOrEmpty ==
    [][AtPlaceholder("ENV:") =>
          IF KeyAfter(4) \in DOMAIN env
          THEN ReplacedBy(env[KeyAfter(4)])
          ELSE ReplacedBy("")]_vars

C13_Witness ==
    /\ Resolved
    /\ template_str = "user=${ENV:API_KEY}, end"
    /\ "API_KEY" \in DOMAIN context
    /\ "API_KEY" \notin DOMAIN env
    /\ result = "user=, end"

\* C14: a placeholder whose TYPE is none of ENV, CONFIG, INPUT (CALC,
\* EXTRACT, an empty TYPE) is replaced by the empty string, the rest of the
\* template unchanged.
TypeOfLeftmost ==
    LET inner == regex_search(result).inner_content
    IN SubSeq(inner, 1, Find(inner, ":", 1) - 1)

C14_UnknownTypeBecomesEmpty ==
    [][(/\ AtPlaceholder("")
        /\ Contains(regex_search(result).inner_content, ":")
        /\ TypeOfLeftmost \notin {"ENV", "CONFIG", "INPUT"})
          => ReplacedBy("")]_vars

C14_Witness ==
    /\ Resolved
    /\ template_str = "user=${CALC:limit|50}, end"
    /\ "limit" \in DOMAIN context
    /\ result = "user=, end"

(***************************************************************************)
(* Malformed placeholders and termination of the loop.                     *)
(***************************************************************************)
\* Every placeholder the regex still finds in s, scanning left to right,
\* has a content without a colon.
RECURSIVE OnlyMalformedLeft(_)
OnlyMalformedLeft(s) ==
    LET match == regex_search(s)
    IN IF ~match.found THEN TRUE
       ELSE /\ ~Contains(match.inner_content, ":")
            /\ OnlyMalformedLeft(SubstrFrom(s, match.pos + Len(match.full_match)))

\* C15: a malformed placeholder (no colon in its content) is left untouched
\* and the function returns with it: once the only placeholders left in
\* result are malformed ones, the loop is at its exit, so that result is
\* returned with their text in place.
C15_MalformedLeftAndReturned ==
    (/\ pc = "tpl_loop"
     /\ regex_search(result).found
     /\ OnlyMalformedLeft(result)) => ENABLED ResolveTemplateReturn

\* C16: resolveTemplate terminates.  The loop decides on result alone and
\* each search starts at the beginning of result, so an iteration that
\* leaves result as it was repeats for ever: every iteration changes result.
C16_EveryIterationProgresses ==
    [][(pc = "tpl_loop" /\ pc' = "tpl_loop" /\ iters' = iters + 1)
          => result' # result]_vars

(***************************************************************************)
(* Properties of the workflow engine.                                      *)
(***************************************************************************)
Running == run_state = "Running"

InsideCache(t) == tasks[t].state \in {"in_lookup", "in_store"}

\* Task t takes the step that ends its cache lookup.
LookupEnds(t) ==
    /\ Running
    /\ t \in DOMAIN tasks
    /\ tasks[t].state = "in_lookup"
    /\ tasks'[t].state # "in_lookup"

\* An identical operation (same name, data source and resolved parameters,
\* caching enabled) has completed since the cache was last cleared.
HasEarlier(t) == OperationIdentity(OperationOf(t)) \in DOMAIN completed
EarlierResult(t) == completed[OperationIdentity(OperationOf(t))]

\* C17: cache idempotence.  An operation executed with caching enabled
\* after an identical one has completed, and with no clearCache in between,
\* ends with the earlier result and no dispatch to the data source is
\* added; with no such earlier execution since the last clearCache (none
\* yet, or the cache was cleared) it dispatches.
C17_CacheIdempotence ==
    [][\A t \in TaskIds :
          LookupEnds(t) =>
            IF HasEarlier(t)
            THEN /\ tasks'[t].state = "done"
                 /\ tasks'[t].result = EarlierResult(t)
                 /\ dispatches' = dispatches
            ELSE /\ tasks'[t].state = "dispatching"
                 /\ Count(dispatches', OperationIdentity(OperationOf(t)))
                      = Count(dispatches, OperationIdentity(OperationOf(t))) + 1]_vars

\* gene_lookup has run twice and the cache was cleared once: of the four
\* executions of fetch_genes two were dispatched, the first one and the
\* first one after clearCache, and the others were served from the cache.
C17_Witness ==
    /\ runs = 2
    /\ clears = 1
    /\ workflow_name = "gene_lookup"
    /\ run_state = "Succeeded"
    /\ outputs_["genes"] = outputs_["genes_again"]
    /\ Count(dispatches, OperationIdentity(FetchGenes)) = 2
    /\ completed # EmptyMap

\* Task t can take a step of its own.
TaskCanStep(t) ==
    \/ ENABLED StartOperation(t)
    \/ ENABLED LeaveLookup(t)
    \/ ENABLED (\E outcome \in DataSourceOutcomes : DataSourceReturns(t, outcome))
    \/ ENABLED EnterStore(t)
    \/ ENABLED LeaveStore(t)

InParallelStep == Running /\ CurrentStep.execution_type = "parallel"

\* The parallel step ends with this step of the engine.
ParallelStepEnds ==
    /\ InParallelStep
    /\ (step_index' # step_index \/ run_state' # "Running")

\* While an operation of a parallel step has failed, every unfinished
\* operation of the step can go on, or waits for the cache only as long as
\* another access is inside it.
OthersNotPrevented ==
    (InParallelStep /\ \E f \in DOMAIN tasks : tasks[f].state = "failed")
      => \A t \in DOMAIN tasks :
            Finished(tasks[t]) \/ TaskCanStep(t) \/ cache_mutex

\* C18: parallel-step isolation.  A failed operation of a parallel step
\* does not keep the other operations of the step from going on; the step
\* ends only when every operation has finished or failed, and the output
\* of every operation that finished is then in the context under its
\* output key.
C18_ParallelIsolation ==
    /\ []OthersNotPrevented
    /\ [][ParallelStepEnds =>
            \A t \in DOMAIN tasks :
              /\ Finished(tasks[t])
              /\ tasks[t].state = "done" =>
                   /\ OperationOf(t).output_key \in DOMAIN outputs_'
                   /\ outputs_'[OperationOf(t).output_key] = tasks[t].result]_vars

C18_Witness ==
    /\ workflow_name = "gene_panel"
    /\ run_state = "PartiallyFailed"
    /\ tasks[2].state = "failed"
    /\ DOMAIN outputs_ = {"other_genes", "expression"}
    /\ Len(errors_) = 1

RegisteredNames == {"gene_lookup", "gene_panel", "strict_lookup"}

\* C20: executeWorkflow with a name that is not a registered workflow ends
\* as WorkflowNotFound with no output, no operation started and no
\* dispatch, and nothing of that changes until the next call.
C20_UnknownWorkflowNotFound ==
    [][/\ (runs' = runs + 1 /\ workflow_name' \notin RegisteredNames)
          => /\ run_state' = "WorkflowNotFound"
             /\ outputs_' = EmptyMap
             /\ tasks' = <<>>
             /\ dispatches' = dispatches
       /\ (run_state = "WorkflowNotFound" /\ runs' = runs)
          => /\ run_state' = "WorkflowNotFound"
             /\ outputs_' = EmptyMap
             /\ tasks' = <<>>
             /\ dispatches' = dispatches]_vars

\* An unknown name after a run that produced outputs and dispatched.
C20_Witness ==
    /\ run_state = "WorkflowNotFound"
    /\ workflow_name = "unknown_workflow"
    /\ runs = 2
    /\ dispatches # EmptyMap
    /\ outputs_ = EmptyMap
    /\ tasks = <<>>

(***************************************************************************)
(* The states of a workflow run.                                           *)
(***************************************************************************)
TerminalStates == {"Succeeded", "Failed", "PartiallyFailed"}

\* An operation failed in a step whose policy is to abort.
FatalError ==
    /\ step_index \in DOMAIN getWorkflow(workflow_name).steps
    /\ CurrentStep.error_handling = "abort"
    /\ \E t \in DOMAIN tasks : tasks[t].state = "failed"

\* The last step has run to its end.
CompletedAllSteps ==
    /\ step_index = Len(getWorkflow(workflow_name).steps)
    /\ \A t \in DOMAIN tasks : Finished(tasks[t])
    /\ ~FatalError

RunStateMeaning ==
    run_state \in TerminalStates =>
      /\ run_state = "Failed" <=> FatalError
      /\ run_state = "PartiallyFailed" <=> (CompletedAllSteps /\ Len(errors_) > 0)
      /\ run_state = "Succeeded" <=> (CompletedAllSteps /\ Len(errors_) = 0)

\* A run that has not ended can go on.
RunNotStuck == run_state \in {"Pending", "Running"} => ENABLED NextEngine

RunStateStep ==
    /\ (runs' = runs + 1) => run_state' \in {"Pending", "WorkflowNotFound"}
    /\ (runs' = runs /\ run_state' # run_state) =>
          \/ run_state = "Pending" /\ run_state' = "Running"
          \/ run_state = "Running" /\ run_state' \in TerminalStates
    /\ (runs' = runs /\ run_state \in TerminalStates) => run_state' = run_state

RECURSIVE Tokens(_)
Tokens(s) ==
    IF Len(s) = 0 THEN <<>>
    ELSE LET sp == Find(s, " ", 1)
         IN IF sp = npos THEN <<s>>
            ELSE IF sp = 1 THEN Tokens(SubstrFrom(s, 2))
            ELSE <<SubSeq(s, 1, sp - 1)>> \o Tokens(SubstrFrom(s, sp + 1))

\* variable OP literal with OP one of ==, !=, >, <, or variable exists.
WellFormedCondition(cond) ==
    LET t == Tokens(cond)
    IN \/ Len(t) = 3 /\ t[2] \in {"==", "!=", ">", "<"}
       \/ Len(t) = 2 /\ t[2] = "exists"

\* The variable of a well-formed condition is one of the context.
Resolvable(cond, ctx) ==
    LET t == Tokens(cond)
    IN t[2] = "exists" \/ t[1] \in DOMAIN ctx

\* C22: a guard that is malformed, or whose variable the context does not
\* hold, evaluates to false: evaluateCondition returns false for it (so
\* that the guarded step is skipped with a warning and the run goes on).
C22_MalformedConditionIsFalse ==
    (/\ pc = "condition_return"
     /\ (~WellFormedCondition(condition) \/ ~Resolvable(condition, variables_)))
      => guard_value = FALSE

(***************************************************************************)
(* Properties of serialize and parse (SpecJson).                           *)
(***************************************************************************)
RECURSIVE MembersInOrder(_, _, _)
MembersInOrder(m, keys, first) ==
    IF keys = <<>> THEN ""
    ELSE (IF first THEN "" ELSE ",")
         \o "\"" \o Head(keys) \o "\":" \o serialize(m[Head(keys)])
         \o MembersInOrder(m, Tail(keys), FALSE)

Saved == pc = "json_saved" /\ json_value.type = "OBJECT"

\* C23: a saved object has its members written in the order in which the
\* keys were inserted.
C23_KeysInInsertionOrder ==
    Saved => file = "{" \o MembersInOrder(json_value.object_value, inserted, TRUE) \o "}"

Ascending(keys) ==
    \A i, j \in DOMAIN keys : i < j => StrLess(keys[i], keys[j])

\* C23 as the code has it: a saved object has its members written in the
\* ascending order of the keys (byte-wise comparison), whatever the order of
\* insertion; "key" then "num", or "num" then "key", both give
\* {"key":"value","num":10}.
C23_KeysInAscendingOrder ==
    Saved =>
        /\ \E keys \in [1 .. Cardinality(DOMAIN json_value.object_value)
                          -> DOMAIN json_value.object_value] :
              /\ Ascending(keys)
              /\ file = "{" \o MembersInOrder(json_value.object_value, keys, TRUE) \o "}"
        /\ (json_value = SetMember(SetMember(makeObject, "key", makeString("value")),
                                   "num", makeNumber(10)))
           => file = "{\"key\":\"value\",\"num\":10}"

C23_Witness ==
    /\ Saved
    /\ inserted = <<"num", "key">>
    /\ file = "{\"key\":\"value\",\"num\":10}"

Loaded == pc = "json_loaded" /\ file # ""

\* C24: a value saved to a file and loaded again is returned equal in type
\* and content, parse(serialize(v)) = v.
C24_SaveLoadRoundTrip == Loaded => parsed = Returned(json_value)

(***************************************************************************)
(* Properties of WorkflowContext (SpecContext).                            *)
(***************************************************************************)
IsAddError(call) == call.method = "addError"
IsAddWarning(call) == call.method = "addWarning"

MessagesOf(selected) == [i \in DOMAIN selected |-> selected[i].message]

IsPrefix(a, b) == Len(a) <= Len(b) /\ SubSeq(b, 1, Len(a)) = a

MessagesAsAdded ==
    pc = "context" =>
        /\ getErrors(errors_) = MessagesOf(SelectSeq(calls, IsAddError))
        /\ getWarnings(warnings_) = MessagesOf(SelectSeq(calls, IsAddWarning))
        /\ hasErrors(errors_) <=> (\E i \in DOMAIN calls : IsAddError(calls[i]))

MessagesKept ==
    pc = "context" =>
        /\ IsPrefix(getErrors(errors_), getErrors(errors_'))
        /\ IsPrefix(getWarnings(warnings_), getWarnings(warnings_'))

\* C25: after any sequence of setInput, setVariable, setOutput, addError and
\* addWarning calls the errors and the warnings of a context are exactly the
\* messages added, in call order, no call removes one, hasErrors() holds
\* exactly when addError was called, and a warning never makes it hold.
C25_MessagesAppendOnly == []MessagesAsAdded /\ [][MessagesKept]_vars

C25_Witness ==
    /\ pc = "context"
    /\ Len(calls) = 3
    /\ calls[2].method = "addWarning"
    /\ errors_ = <<"timeout", "not found">>
    /\ warnings_ = <<"timeout">>
    /\ hasErrors(errors_)

(***************************************************************************)
(* Further properties of the handler (SpecApi).                            *)
(***************************************************************************)
Member(v, key) == v.object_value[key]
HasMember(v, key) == key \in DOMAIN v.object_value

C28_NonObjectParametersRejected ==
    (/\ Answered
     /\ endpoint \in BroadSearchNames
     /\ HasParameters(request)
     /\ Parameters(request).type # "OBJECT")
        => /\ ~thrown
           /\ IsFailure(response)
           /\ ~IsSuccess(response)
           /\ Contains(ErrorMessage(response), EmptyPhrase)
           /\ ~Contains(ErrorMessage(response), MissingPhrase)

C28_Witness ==
    /\ Answered
    /\ endpoint = "getResearchAssociations"
    /\ HasParameters(request)
    /\ Parameters(request) = PushBack(makeArray, makeString("COMT"))
    /\ IsFailure(response)
    /\ Contains(ErrorMessage(response), EmptyPhrase)

(***************************************************************************)
(* Properties of the test-runner program (SpecRunner).                     *)
(***************************************************************************)
Exited == pc = "runner_exit"
LastLine == stdout_[Len(stdout_)]

\* C27: the program prints "All tests passed!" and exits with status 0
\* exactly when run_all recorded zero failures, and otherwise prints
\* "Some tests failed!" and exits with status 1.
C27_ExitReflectsFailures ==
    Exited =>
        IF total_stats.failed = 0
        THEN LastLine = "All tests passed!" /\ exit_status = 0
        ELSE LastLine = "Some tests failed!" /\ exit_status = 1

(***************************************************************************)
(* Further properties of resolveTemplate (SpecTpl, SpecPlaceholder).       *)
(***************************************************************************)
\* s holds "${", then one or more characters other than '}', then '}'.
HasPlaceholder(s) ==
    \E i, j \in 1 .. Len(s) :
        /\ i + 3 <= j
        /\ CharAt(s, i) = "$"
        /\ CharAt(s, i + 1) = "{"
        /\ CharAt(s, j) = "}"
        /\ \A k \in (i + 2) .. (j - 1) : CharAt(s, k) # "}"

\* C29: a string returned by resolveTemplate holds no "${X}" with X
\* non-empty and free of '}', also when a substituted value brought a
\* placeholder in: that one is resolved too before the call returns.
C29_NoPlaceholderReturned == Resolved => ~HasPlaceholder(result)

C29_Witness ==
    /\ Resolved
    /\ template_str = "x${INPUT:a}"
    /\ "a" \in DOMAIN context
    /\ context["a"] = "${INPUT:b}"
    /\ iters = 2
    /\ result = "x"

\* C30: only CONFIG placeholders have a default.  For ${INPUT:NAME|DEFAULT}
\* the whole text after the first colon is the key, so with NAME in the
\* context and NAME|DEFAULT not, it is replaced by the empty string, where
\* ${CONFIG:NAME|DEFAULT} is replaced by the value of NAME; and for a key k
\* of the context without '|', ${CONFIG:k} and ${INPUT:k} are replaced by
\* the same value, the context's value for k.
C30_OnlyConfigHasDefault ==
    [][/\ (/\ AtPlaceholder("INPUT:")
           /\ Contains(KeyAfter(6), "|")
           /\ NameOf(KeyAfter(6)) \in DOMAIN context
           /\ KeyAfter(6) \notin DOMAIN context)
          => ReplacedBy("")
       /\ (/\ AtPlaceholder("CONFIG:")
           /\ Contains(KeyAfter(7), "|")
           /\ NameOf(KeyAfter(7)) \in DOMAIN context)
          => ReplacedBy(context[NameOf(KeyAfter(7))])
       /\ \A k \in DOMAIN context :
             (/\ ~Contains(k, "|")
              /\ \/ AtPlaceholder("INPUT:") /\ KeyAfter(6) = k
                 \/ AtPlaceholder("CONFIG:") /\ KeyAfter(7) = k)
             => ReplacedBy(context[k])]_vars

C30_Witness ==
    /\ Resolved
    /\ template_str = "user=${INPUT:user_id|0}, end"
    /\ "user_id" \in DOMAIN context
    /\ "user_id|0" \notin DOMAIN context
    /\ result = "user=, end"

====
